---- MODULE Spec2Model ----
(***************************************************************************)
(* ReversalLearningTask (src/utils/env.py): the block schedule built by    *)
(* reset(), the per-trial timeline, and the cursor that step() moves over  *)
(* it.  Python indices are 0-based; the arrays are kept as TLA+ sequences  *)
(* and read through At(arr, i), which is arr[i] of the source.             *)
(*                                                                         *)
(* Numbers: probabilities are percentages (0.8 is 80), log-probabilities   *)
(* and rewards are integers.  None is -1 for an integer field and <<-1>>   *)
(* for an array field; no integer field of the program is ever negative    *)
(* and no array of the program equals <<-1>>.                              *)
(***************************************************************************)
EXTENDS Integers, Sequences, FiniteSets, TLC

(* ------------------------------ bounds --------------------------------- *)

\* num_blocks ranges over 0..MaxBlocks (the source's default is 10).
MaxBlocks == 2

\* Number of states of numpy's global generator that are told apart.
RngPeriod == 16

\* The largest geometric sample the generator yields.
MaxSample == 250

\* step() calls allowed on an exhausted episode before the caller gives up.
MaxExtraSteps == 2
MaxOtherResets == 1

(* ------------------------- program constants --------------------------- *)

None == -1

NoneArray == <<None>>

MinTrials == 20

MaxTrials == 100

(* ------------------------- numpy / torch helpers ----------------------- *)

\* len(arr)
len(arr) == Len(arr)

\* arr[i] raises IndexError unless -len <= i < len
InBounds(arr, i) == (-len(arr) <= i) /\ (i < len(arr))

\* arr[i] for an index that is in bounds (negative indices count from the end)
At(arr, i) == IF i >= 0 THEN arr[i + 1] ELSE arr[len(arr) + i + 1]

\* (mutant) the write lands on the slot after i, as if the cursor had
\* been incremented before the record was stored
SetAt_after_increment(arr, i, v) == [arr EXCEPT ![i + 2] = v]

\* (mutant) the write also lands on the slot after i
SetAt_and_next(arr, i, v) ==
    [j \in 1..Len(arr) |-> IF j = i + 1 \/ j = i + 2 THEN v ELSE arr[j]]

\* arr[i] = v, in place
SetAt(arr, i, v) == [arr EXCEPT ![i + 1] = v]

\* (mutant) the filled array is one entry too long
full_one_more(n, v) == [j \in 1..(n + 1) |-> v]

\* np.full(shape=n, fill_value=v)
full(n, v) == [j \in 1..n |-> v]

\* np.arange(lo, hi)
arange(lo, hi) == [j \in 1..(hi - lo) |-> lo + j - 1]

\* torch.zeros((n,))
zeros(n) == [j \in 1..n |-> 0]

\* torch.zeros((n, 2))
zeros2(n) == [j \in 1..n |-> <<0, 0>>]

\* np.concatenate(list of arrays), in list order
RECURSIVE concatenate(_)
concatenate(arrays) ==
    IF arrays = <<>> THEN <<>>
    ELSE Head(arrays) \o concatenate(Tail(arrays))

\* np.sum(list of integers)
RECURSIVE sum(_)
sum(xs) == IF xs = <<>> THEN 0 ELSE Head(xs) + sum(Tail(xs))

(* ----------------------- numpy's global generator ---------------------- *)

\* The generator is a deterministic stream; its state is the position in
\* the stream and every draw moves it on by one.
Advance(r, k) == (r + k) % RngPeriod

\* The samples np.random.geometric can yield, from below the lower clamp to
\* above the upper one.
GeometricSamples ==
    <<1, MinTrials - 1, MinTrials, MinTrials + 1, 60,
      MaxTrials - 1, MaxTrials, MaxTrials + 1, MaxSample>>

\* np.random.geometric(p) in generator state r: a sample >= 1; successive
\* states yield samples seven places apart in the list
geometric(r) == GeometricSamples[((7 * r) % Len(GeometricSamples)) + 1]

\* np.random.choice(['left', 'right']) in generator state r
choice(r) == IF (r \div 2) % 2 = 0 THEN "left" ELSE "right"

(* --------------------------- block schedule ---------------------------- *)

\* (mutant) the upper test is missing
Truncate_no_upper(num_trials) ==
    IF num_trials < MinTrials THEN MinTrials ELSE num_trials

\* (mutant) the lower test is missing
Truncate_no_lower(num_trials) ==
    IF num_trials > MaxTrials THEN MaxTrials ELSE num_trials

\* reset(): "truncate to [20, 100]", the two tests made on the drawn value
Truncate(num_trials) ==
    LET low == IF num_trials < MinTrials THEN MinTrials ELSE num_trials
    IN  IF num_trials > MaxTrials THEN MaxTrials ELSE low

\* (mutant) the preferred side is not switched between blocks
toggle_stays(curr_preferred_side) == curr_preferred_side

\* reset(): curr_preferred_side for the next block
toggle(curr_preferred_side) ==
    IF curr_preferred_side = "left" THEN "right" ELSE "left"

\* reset(): fill_value of a block's preferred-side array
fill_value(curr_preferred_side) ==
    IF curr_preferred_side = "left" THEN -1 ELSE 1

\* reset(): curr_preferred_side at each of n loop iterations, from `first`
RECURSIVE preferred_sides(_, _)
preferred_sides(first, n) ==
    IF n = 0 THEN <<>>
    ELSE <<first>> \o preferred_sides(toggle(first), n - 1)

\* __init__: the defaults of the two bias vectors, and the dict built of them
side_bias_probs_of(left_bias_probs, right_bias_probs) ==
    [left  |-> IF left_bias_probs = NoneArray THEN <<20, 80>> ELSE left_bias_probs,
     right |-> IF right_bias_probs = NoneArray THEN <<80, 20>> ELSE right_bias_probs]

\* The (left_bias_probs, right_bias_probs) the instances are built with:
\* the defaults, create_training_choice_world, create_biased_choice_worlds.
BiasArguments ==
    { <<NoneArray, NoneArray>>, <<<<50, 50>>, <<50, 50>>>>, <<<<80, 20>>, <<20, 80>>>> }

(* -------------------------- stimulus generator ------------------------- *)

\* VectorStimulusCreator.create_block_stimuli in generator state u: three
\* sequences of block_num_trials entries; sides are -1 / +1, drawn left with
\* the first probability; strengths are 0..2; a stimulus is the signed
\* strength.
sampled_side(probs, u, j) == IF ((u + j) % 5) * 20 < probs[1] THEN -1 ELSE 1

sampled_strength(u, j) == (u + 2 * j) % 3

create_block_stimuli(block_num_trials, block_side_bias_probabilities, u) ==
    [sampled_stimuli   |-> [j \in 1..block_num_trials |->
                              sampled_side(block_side_bias_probabilities, u, j)
                              * sampled_strength(u, j)],
     sampled_sides     |-> [j \in 1..block_num_trials |->
                              sampled_side(block_side_bias_probabilities, u, j)],
     sampled_strengths |-> [j \in 1..block_num_trials |-> sampled_strength(u, j)]]

(* ------------------------------- caller -------------------------------- *)

\* The model that plays the task: its softmax output (two log-probabilities)
\* and its hidden state are functions of the stimulus it was last shown.
Agents == {"follow", "left"}

model_softmax_output_of(agent, stimulus) ==
    IF agent = "left" THEN <<-1, -3>>
    ELSE IF stimulus < 0 THEN <<-1, -3>>
    ELSE IF stimulus > 0 THEN <<-3, -1>>
    ELSE <<-2, -2>>

model_hidden_of(agent, stimulus) ==
    IF agent = "left" THEN 0 ELSE 1 + (IF stimulus < 0 THEN -stimulus ELSE stimulus)

(* -------------------------------- state -------------------------------- *)

VARIABLES
    \* configuration, set by __init__
    num_blocks, side_bias_probs,
    \* episode state, None until reset()
    num_trials_per_block, stimuli_block_number, trial_num_within_block,
    stimuli, stimuli_sides, stimuli_strengths, stimuli_preferred_sides,
    rewards, actions, model_hidden_states, current_trial_idx, total_num_trials,
    \* numpy's global generator
    np_random,
    \* the caller: its model, the last dict a call returned to it, the
    \* exception its last call raised ("none" when the call returned)
    agent, step_output, raised,
    \* records of the episode: the values np.random.geometric returned to the
    \* last reset(), the arguments that reset() gave create_block_stimuli,
    \* the step() calls made since it, whether one of them returned done
    geometric_samples, creator_calls, num_steps, done_seen,
    \* object identity: the identity of the arrays that rewards, actions and
    \* model_hidden_states are bound to; whether the caller keeps a reference
    \* to the arrays of an episode when it resets, the identity of the arrays
    \* it kept at the last reset() and what the episode was at that call
    arrays_id, caller_keeps, kept_id, reset_from,
    \* the generator state, and the samples of the last reset(), as they
    \* would be had no other instance drawn from np.random; the reset()
    \* calls made so far on another instance
    np_random_alone, samples_alone, other_resets

config == <<num_blocks, side_bias_probs, agent, caller_keeps>>

objects == <<arrays_id, kept_id, reset_from>>

alone == <<np_random_alone, samples_alone, other_resets>>

timeline == <<num_trials_per_block, stimuli_block_number, trial_num_within_block,
              stimuli, stimuli_sides, stimuli_strengths, stimuli_preferred_sides,
              total_num_trials>>

history == <<rewards, actions, model_hidden_states, current_trial_idx>>

vars == <<config, timeline, history, np_random, step_output, raised,
          geometric_samples, creator_calls, num_steps, done_seen, objects, alone>>

\* info=None, and the caller's step_output before any call has returned
NoneDict == [is_none |-> TRUE]

\* ReversalLearningTask.__init__
Constructed ==
    /\ num_blocks \in 0..MaxBlocks
    /\ \E args \in BiasArguments : side_bias_probs = side_bias_probs_of(args[1], args[2])
    /\ num_trials_per_block = NoneArray
    /\ stimuli_block_number = NoneArray
    /\ trial_num_within_block = NoneArray
    /\ stimuli = NoneArray
    /\ stimuli_sides = NoneArray
    /\ stimuli_strengths = NoneArray
    /\ stimuli_preferred_sides = NoneArray
    /\ rewards = NoneArray
    /\ actions = NoneArray
    /\ model_hidden_states = NoneArray
    /\ current_trial_idx = None
    /\ total_num_trials = None
    /\ np_random \in 0..(RngPeriod - 1)
    /\ agent \in Agents
    /\ step_output = NoneDict
    /\ raised = "none"
    /\ geometric_samples = <<>>
    /\ creator_calls = <<>>
    /\ num_steps = 0
    /\ done_seen = FALSE
    /\ arrays_id = None
    /\ kept_id = None
    /\ reset_from = "none"
    /\ np_random_alone = np_random
    /\ samples_alone = <<>>
    /\ other_resets = 0

\* one instance, and a caller that keeps no array of a finished episode
Init == Constructed /\ caller_keeps = FALSE

(* ------------------------------- reset() ------------------------------- *)

\* (mutant) the arrays of the episode are zeroed in place, not created anew
new_object_in_place(live) == IF live = {} THEN 0 ELSE CHOOSE i \in live : TRUE

\* torch.zeros(...) and [] create new objects: the identity of a new object
\* differs from that of every object still referenced
new_object(live) == CHOOSE i \in 0..Cardinality(live) : i \notin live

\* what the episode is when reset() is called
phase ==
    IF current_trial_idx = None THEN "not_started"
    ELSE IF current_trial_idx = total_num_trials THEN "exhausted"
    ELSE IF current_trial_idx = 0 THEN "ready"
    ELSE "mid_episode"

\* reset(): one np.random.geometric draw per block, from generator state r
draw_block_lengths(r, n) == [i \in 1..n |-> geometric(Advance(r, i - 1))]

\* reset(): the truncation loop over the drawn lengths
truncate_all(drawn) == [i \in 1..Len(drawn) |-> Truncate(drawn[i])]

\* (mutant) blocks are numbered from 0, np.arange(len) for np.arange(1, 1+len)
block_numbers_from_zero(trials_per_block) ==
    concatenate([i \in 1..Len(trials_per_block) |-> full(trials_per_block[i], i - 1)])

\* reset(): np.full(shape=nt, fill_value=i) for i = 1..len, concatenated
block_numbers(trials_per_block) ==
    concatenate([i \in 1..Len(trials_per_block) |-> full(trials_per_block[i], i)])

\* (mutant) trials are numbered from 0 within their block
trial_numbers_from_zero(trials_per_block) ==
    concatenate([i \in 1..Len(trials_per_block) |-> arange(0, trials_per_block[i])])

\* reset(): np.arange(1, 1+nt) for each block, concatenated
trial_numbers(trials_per_block) ==
    concatenate([i \in 1..Len(trials_per_block) |-> arange(1, 1 + trials_per_block[i])])

\* reset(): side_bias_probs[curr_preferred_side], the vector given to the
\* stimulus generator for a block
bias_probs_for(probs, curr_preferred_side) == probs[curr_preferred_side]

\* (mutant) the test of the first observation's done is inverted
reset_done_inverted(idx, total) == (idx # total)

\* reset(): done of the first observation
reset_done(idx, total) == (idx = total)

\* reset() with no block: np.concatenate of an empty list raises ValueError
\* after num_trials_per_block has been assigned
ResetRaises ==
    /\ num_blocks = 0
    /\ num_trials_per_block' = truncate_all(draw_block_lengths(np_random, num_blocks))
    /\ geometric_samples' = draw_block_lengths(np_random, num_blocks)
    /\ raised' = "ValueError"
    /\ UNCHANGED <<config, stimuli_block_number, trial_num_within_block, stimuli,
                   stimuli_sides, stimuli_strengths, stimuli_preferred_sides,
                   total_num_trials, history, np_random, step_output,
                   creator_calls, num_steps, done_seen, objects, alone>>

\* reset() with at least one block
ResetReturns ==
    /\ num_blocks > 0
    /\ LET drawn  == draw_block_lengths(np_random, num_blocks)
           ntpb   == truncate_all(drawn)
           total  == sum(ntpb)
           first  == choice(Advance(np_random, num_blocks))
           sides  == preferred_sides(first, num_blocks)
           probs  == [b \in 1..num_blocks |-> bias_probs_for(side_bias_probs, sides[b])]
           output == [b \in 1..num_blocks |->
                        create_block_stimuli(ntpb[b], probs[b],
                                             Advance(np_random, num_blocks + b))]
           first_stimuli == concatenate([b \in 1..num_blocks |-> output[b].sampled_stimuli])
       IN  /\ geometric_samples' = drawn
           /\ num_trials_per_block' = ntpb
           /\ stimuli_block_number' = block_numbers(ntpb)
           /\ trial_num_within_block' = trial_numbers(ntpb)
           /\ total_num_trials' = total
           /\ creator_calls' = [b \in 1..num_blocks |->
                                  [block_num_trials |-> ntpb[b],
                                   block_side_bias_probabilities |-> probs[b]]]
           /\ stimuli' = first_stimuli
           /\ stimuli_sides' =
                  concatenate([b \in 1..num_blocks |-> output[b].sampled_sides])
           /\ stimuli_preferred_sides' =
                  concatenate([b \in 1..num_blocks |-> full(ntpb[b], fill_value(sides[b]))])
           /\ stimuli_strengths' =
                  concatenate([b \in 1..num_blocks |-> output[b].sampled_strengths])
           /\ rewards' = zeros(total)
           /\ actions' = zeros2(total)
           /\ model_hidden_states' = <<>>
           /\ current_trial_idx' = 0
           /\ step_output' = [stimulus |-> At(first_stimuli, 0),
                              reward   |-> 0,
                              info     |-> NoneDict,
                              done     |-> reset_done(0, total)]
           /\ np_random' = Advance(np_random, 2 * num_blocks + 1)
           /\ np_random_alone' = Advance(np_random_alone, 2 * num_blocks + 1)
           /\ samples_alone' = draw_block_lengths(np_random_alone, num_blocks)
           /\ other_resets' = other_resets
    /\ arrays_id' = new_object(IF caller_keeps THEN {arrays_id} \ {None} ELSE {})
    /\ kept_id' = IF caller_keeps THEN arrays_id ELSE kept_id
    /\ reset_from' = IF caller_keeps THEN phase ELSE reset_from
    /\ raised' = "none"
    /\ num_steps' = 0
    /\ done_seen' = FALSE
    /\ UNCHANGED config

reset == ResetRaises \/ ResetReturns

(* -------------------------------- step() ------------------------------- *)

\* NLLLoss()(input, target) for a batch of one: minus the target's entry
loss_fn(target, input) == -At(input, target)

\* (mutant) the target is the entry of the other side
target_of_swapped(stimulus_side) == (1 - stimulus_side) \div 2

\* step(): the target, (side + 1) / 2
target_of(stimulus_side) == (stimulus_side + 1) \div 2

\* step(): reward for the trial at idx
reward_of(sides, idx, model_softmax_output) ==
    -loss_fn(target_of(At(sides, idx)), model_softmax_output)

\* (mutant) the counter is incremented twice per step
increment_twice(idx) == idx + 2

\* step(): "increment trial counter"
increment(idx) == idx + 1

\* (mutant) done is reported two trials before the last index
step_done_two_early(idx, total) == ((idx + 2) = total)

\* (mutant) done is reported only once the cursor is past the last trial
step_done_at_end(idx, total) == (idx = total)

\* step(): done of the observation, computed after the increment
step_done(idx, total) == ((idx + 1) = total)

\* what the caller's model answers to the observation it holds
model_softmax_output == model_softmax_output_of(agent, step_output.stimulus)

model_hidden == model_hidden_of(agent, step_output.stimulus)

\* (mutant) before any reset() the call creates the list of hidden states
\* and then fails
StepNotReset_creates_list ==
    /\ stimuli_sides = NoneArray
    /\ model_hidden_states' = <<>>
    /\ raised' = "TypeError"
    /\ UNCHANGED <<config, timeline, rewards, actions, current_trial_idx,
                   np_random, step_output, geometric_samples, creator_calls,
                   num_steps, done_seen, objects, alone>>

\* step() before any reset(): self.stimuli_sides is None, TypeError
StepNotReset ==
    /\ stimuli_sides = NoneArray
    /\ raised' = "TypeError"
    /\ UNCHANGED <<config, timeline, history, np_random, step_output,
                   geometric_samples, creator_calls, num_steps, done_seen,
                   objects, alone>>

\* (mutant) on an exhausted episode the hidden state is recorded before the
\* failing read
StepExhausted_appends ==
    /\ stimuli_sides # NoneArray
    /\ ~InBounds(stimuli_sides, current_trial_idx)
    /\ num_steps < total_num_trials + MaxExtraSteps
    /\ model_hidden_states' = Append(model_hidden_states, model_hidden)
    /\ raised' = "IndexError"
    /\ num_steps' = num_steps + 1
    /\ UNCHANGED <<config, timeline, rewards, actions, current_trial_idx,
                   np_random, step_output, geometric_samples, creator_calls,
                   done_seen, objects, alone>>

\* step() on an exhausted episode: stimuli_sides[current_trial_idx] raises
\* IndexError before anything is written
StepExhausted ==
    /\ stimuli_sides # NoneArray
    /\ ~InBounds(stimuli_sides, current_trial_idx)
    /\ num_steps < total_num_trials + MaxExtraSteps
    /\ raised' = "IndexError"
    /\ num_steps' = num_steps + 1
    /\ UNCHANGED <<config, timeline, history, np_random, step_output,
                   geometric_samples, creator_calls, done_seen, objects, alone>>

\* step(): what it writes before it reads the next trial
StepWrites ==
    /\ stimuli_sides # NoneArray
    /\ InBounds(stimuli_sides, current_trial_idx)
    /\ rewards' = SetAt(rewards, current_trial_idx,
                        reward_of(stimuli_sides, current_trial_idx, model_softmax_output))
    /\ actions' = SetAt(actions, current_trial_idx, model_softmax_output)
    /\ model_hidden_states' = Append(model_hidden_states, model_hidden)
    /\ current_trial_idx' = increment(current_trial_idx)
    /\ num_steps' = num_steps + 1
    /\ UNCHANGED <<config, timeline, np_random, geometric_samples, creator_calls,
                   objects, alone>>

\* (mutant) on the last trial the failing read comes before the writes
StepLastTrial_before_writes ==
    /\ stimuli_sides # NoneArray
    /\ InBounds(stimuli_sides, current_trial_idx)
    /\ ~InBounds(stimuli, increment(current_trial_idx))
    /\ num_steps < total_num_trials + MaxExtraSteps
    /\ raised' = "IndexError"
    /\ num_steps' = num_steps + 1
    /\ UNCHANGED <<config, timeline, history, np_random, step_output,
                   geometric_samples, creator_calls, done_seen, objects, alone>>

\* step() on the last trial: the writes are made, then
\* stimuli[current_trial_idx] raises IndexError
StepLastTrial ==
    /\ StepWrites
    /\ ~InBounds(stimuli, current_trial_idx')
    /\ raised' = "IndexError"
    /\ UNCHANGED <<step_output, done_seen>>

\* (mutant) the observation returned is read before the increment: it
\* describes the trial just answered
StepReturns_describes_previous ==
    /\ StepWrites
    /\ InBounds(stimuli, current_trial_idx')
    /\ step_output' =
           [stimulus |-> At(stimuli, current_trial_idx),
            reward   |-> reward_of(stimuli_sides, current_trial_idx, model_softmax_output),
            info     |-> [stimulus_side     |-> At(stimuli_sides, current_trial_idx),
                          stimulus_strength |-> At(stimuli_strengths, current_trial_idx)],
            done     |-> step_done(current_trial_idx', total_num_trials)]
    /\ raised' = "none"
    /\ done_seen' = (done_seen \/ step_done(current_trial_idx', total_num_trials))

\* step() that returns the next observation
StepReturns ==
    /\ StepWrites
    /\ InBounds(stimuli, current_trial_idx')
    /\ step_output' =
           [stimulus |-> At(stimuli, current_trial_idx'),
            reward   |-> reward_of(stimuli_sides, current_trial_idx, model_softmax_output),
            info     |-> [stimulus_side     |-> At(stimuli_sides, current_trial_idx'),
                          stimulus_strength |-> At(stimuli_strengths, current_trial_idx')],
            done     |-> step_done(current_trial_idx', total_num_trials)]
    /\ raised' = "none"
    /\ done_seen' = (done_seen \/ step_done(current_trial_idx', total_num_trials))

step == StepNotReset \/ StepExhausted \/ StepLastTrial \/ StepReturns

(* ---------------------------- specification ---------------------------- *)

Next ==
    \/ ResetRaises
    \/ ResetReturns
    \/ StepNotReset
    \/ StepExhausted
    \/ StepLastTrial
    \/ StepReturns

Spec == Init /\ [][Next]_vars

\* The same instance with a caller that, at each reset(), keeps its reference
\* to the arrays of the episode it leaves; one model and the default bias
\* vectors.
InitKeep ==
    /\ Constructed
    /\ caller_keeps = TRUE
    /\ agent = "follow"
    /\ side_bias_probs = side_bias_probs_of(NoneArray, NoneArray)

SpecKeep == InitKeep /\ [][Next]_vars

\* reset() of another instance of the same batch (create_training_choice_world
\* builds them all from one kwargs dict): its arrays are its own and are not
\* kept here; what it shares with this instance is np.random, from which it
\* takes the draws of lines 111-135.  Its step() touches nothing shared.
OtherReset ==
    /\ num_blocks > 0
    /\ other_resets < MaxOtherResets
    /\ other_resets' = other_resets + 1
    /\ np_random' = Advance(np_random, 2 * num_blocks + 1)
    /\ UNCHANGED <<config, timeline, history, step_output, raised,
                   geometric_samples, creator_calls, num_steps, done_seen,
                   objects, np_random_alone, samples_alone>>

\* two instances built by create_training_choice_world
InitTwo ==
    /\ Constructed
    /\ caller_keeps = FALSE
    /\ agent = "follow"
    /\ side_bias_probs = side_bias_probs_of(<<50, 50>>, <<50, 50>>)

NextTwo == Next \/ OtherReset

SpecTwo == InitTwo /\ [][NextTwo]_vars

(* ------------------------------- claims -------------------------------- *)

\* reset() has returned at least once on this instance
Started == current_trial_idx # None

\* the softmax output the caller gave step() for trial i: its model's answer
\* to the stimulus of trial i, which is the observation it held then
GivenAction(i) == model_softmax_output_of(agent, stimuli[i + 1])

\* the entry of that output for the side of trial i
EarnedReward(i) ==
    IF stimuli_sides[i + 1] = -1 THEN GivenAction(i)[1] ELSE GivenAction(i)[2]

\* trials 0..k-1 are recorded: reward, action, one hidden state each
RecordedUpTo(k) ==
    /\ Len(model_hidden_states) = k
    /\ \A i \in 0..(k - 1) :
          /\ rewards[i + 1] = EarnedReward(i)
          /\ actions[i + 1] = GivenAction(i)

\* C1 as stated: after reset() and k step() calls, for every k, the cursor
\* is k and trials 0..k-1 are recorded.
C1_Original ==
    Started => (current_trial_idx = num_steps /\ RecordedUpTo(num_steps))

\* C1 amended: after reset() and k step() calls with k <= total_num_trials the
\* cursor is k and trials 0..k-1 hold the reward and the action of their step,
\* with k hidden states; so each such step() raises the cursor by exactly 1.
\* Further step() calls leave the cursor at total_num_trials: none lowers it.
C1_CursorCountsSteps ==
    Started =>
        /\ num_steps <= total_num_trials =>
              (current_trial_idx = num_steps /\ RecordedUpTo(num_steps))
        /\ num_steps > total_num_trials =>
              (current_trial_idx = total_num_trials /\ RecordedUpTo(total_num_trials))

\* C1 witness: an episode stepped through to its last trial
C1_Witness ==
    /\ Started
    /\ num_steps = total_num_trials
    /\ current_trial_idx = total_num_trials
    /\ \E i \in 1..total_num_trials : rewards[i] = -3

\* C2: after reset(), whatever step() and reset() calls follow (the raising
\* ones included), 0 <= current_trial_idx <= total_num_trials.
C2_CursorInRange ==
    Started => (0 <= current_trial_idx /\ current_trial_idx <= total_num_trials)

\* C2 witness: a step() call has raised on an exhausted episode
C2_Witness ==
    /\ Started
    /\ raised = "IndexError"
    /\ num_steps > total_num_trials
    /\ current_trial_idx = total_num_trials

\* C3: a step() that returns reports done exactly when the incremented cursor
\* plus one is total_num_trials; the first such step is the (N-1)-th after
\* reset() and every earlier one reports done = false.
C3_DoneOneTrialEarly ==
    (Started /\ num_steps >= 1 /\ raised = "none") =>
        /\ step_output.done = (current_trial_idx + 1 = total_num_trials)
        /\ step_output.done = (num_steps = total_num_trials - 1)
        /\ done_seen = (num_steps >= total_num_trials - 1)

\* C3 witness: the 19th step of a 20-trial episode returns done
C3_Witness ==
    /\ Started
    /\ total_num_trials = 20
    /\ num_steps = 19
    /\ raised = "none"
    /\ step_output.done

\* C4: while no step() of the episode has returned done = true, no call has
\* raised: every step() the caller made returned an observation.
C4_NoErrorBeforeDone ==
    Started => (raised # "none" => done_seen)

\* C4 witness: the caller has stepped until done was returned, and no call raised
C4_Witness ==
    /\ Started
    /\ done_seen
    /\ step_output.done
    /\ raised = "none"
    /\ num_steps >= 1

\* C5 as stated: when step() first returns done = true, step() has been called
\* once per trial and every trial has its reward and action recorded.
C5_OneStepPerTrial ==
    (Started /\ num_steps >= 1 /\ raised = "none" /\ step_output.done) =>
        (num_steps = total_num_trials /\ RecordedUpTo(total_num_trials))

\* number of trials in the blocks before block b (b = 1 is the first block)
RECURSIVE TrialsBefore(_)
TrialsBefore(b) ==
    IF b <= 1 THEN 0 ELSE TrialsBefore(b - 1) + num_trials_per_block[b - 1]

\* C6: once reset() has assigned it, num_trials_per_block has num_blocks
\* entries and each is an integer in [20, 100].
C6_BlockLengthsInRange ==
    (num_trials_per_block # NoneArray) =>
        /\ Len(num_trials_per_block) = num_blocks
        /\ \A i \in 1..Len(num_trials_per_block) :
              num_trials_per_block[i] \in 20..100

\* C6 witness: an episode whose draws fell below 20 and above 100
C6_Witness ==
    /\ Started
    /\ \E i \in 1..Len(geometric_samples) : geometric_samples[i] < 20
    /\ \E i \in 1..Len(geometric_samples) : geometric_samples[i] > 100

\* C7: each block length is its own geometric sample s, turned into 20 when
\* s < 20, into 100 when s > 100 and kept otherwise (20 and 100 included);
\* one sample is drawn per block.
C7_ClampOfEachSample ==
    (num_trials_per_block # NoneArray) =>
        /\ Len(geometric_samples) = num_blocks
        /\ Len(num_trials_per_block) = Len(geometric_samples)
        /\ \A i \in 1..Len(geometric_samples) :
              LET s == geometric_samples[i]
              IN  /\ s >= 1
                  /\ s < 20 => num_trials_per_block[i] = 20
                  /\ s > 100 => num_trials_per_block[i] = 100
                  /\ (20 <= s /\ s <= 100) => num_trials_per_block[i] = s

\* C7 witness: an episode with a sample of exactly 20 or exactly 100 next to
\* a sample that was clamped
C7_Witness ==
    /\ Started
    /\ \E i \in 1..Len(geometric_samples) : geometric_samples[i] \in {20, 100}
    /\ \E i \in 1..Len(geometric_samples) :
          geometric_samples[i] # num_trials_per_block[i]

\* C8: stimuli_preferred_sides is constant over each block, -1 or +1, and
\* negated from one block to the next; the bias vector given to the stimulus
\* generator for a block is the one of that block's preferred side.
C8_PreferredSideAlternates ==
    Started =>
        /\ Len(creator_calls) = num_blocks
        /\ \A b \in 1..num_blocks :
              LET side == stimuli_preferred_sides[TrialsBefore(b) + 1]
              IN  /\ side \in {-1, 1}
                  /\ \A j \in 1..num_trials_per_block[b] :
                        stimuli_preferred_sides[TrialsBefore(b) + j] = side
                  /\ b < num_blocks =>
                        stimuli_preferred_sides[TrialsBefore(b + 1) + 1] = -side
                  /\ creator_calls[b].block_side_bias_probabilities =
                        (IF side = -1 THEN side_bias_probs.left
                                      ELSE side_bias_probs.right)

\* C8 witness: an episode of two blocks or more whose two bias vectors differ
C8_Witness ==
    /\ Started
    /\ num_blocks >= 2
    /\ side_bias_probs.left # side_bias_probs.right
    /\ stimuli_preferred_sides[1] = 1

\* C9: the block lengths add up to total_num_trials, which is the length of
\* stimuli, stimuli_sides, stimuli_strengths and stimuli_preferred_sides;
\* rewards and actions have total_num_trials rows.
C9_TimelineLengths ==
    Started =>
        /\ total_num_trials = TrialsBefore(num_blocks + 1)
        /\ Len(stimuli) = total_num_trials
        /\ Len(stimuli_sides) = total_num_trials
        /\ Len(stimuli_strengths) = total_num_trials
        /\ Len(stimuli_preferred_sides) = total_num_trials
        /\ Len(rewards) = total_num_trials
        /\ Len(actions) = total_num_trials
        /\ \A i \in 1..Len(actions) : Len(actions[i]) = 2

\* C9 witness: an episode of several blocks of different lengths
C9_Witness ==
    /\ Started
    /\ num_blocks >= 2
    /\ num_trials_per_block[1] # num_trials_per_block[2]
    /\ Len(stimuli) = num_trials_per_block[1] + num_trials_per_block[2]

\* C10: stimuli_block_number is non-decreasing, its values are exactly
\* 1..num_blocks, and value i fills the num_trials_per_block[i] places of
\* block i.
C10_BlockNumbers ==
    Started =>
        /\ \A k \in 1..(Len(stimuli_block_number) - 1) :
              stimuli_block_number[k] <= stimuli_block_number[k + 1]
        /\ {stimuli_block_number[k] : k \in 1..Len(stimuli_block_number)} = 1..num_blocks
        /\ \A i \in 1..num_blocks :
              /\ Cardinality({k \in 1..Len(stimuli_block_number) :
                                 stimuli_block_number[k] = i}) = num_trials_per_block[i]
              /\ \A j \in 1..num_trials_per_block[i] :
                    stimuli_block_number[TrialsBefore(i) + j] = i

\* C10 witness: an episode of two blocks or more, the first shorter than the second
C10_Witness ==
    /\ Started
    /\ num_blocks >= 2
    /\ num_trials_per_block[1] < num_trials_per_block[2]
    /\ stimuli_block_number[Len(stimuli_block_number)] = num_blocks

\* the last call was a reset() that returned: no step() has been made since
JustReset == Started /\ num_steps = 0 /\ raised = "none"

\* C11: the observation reset() returns holds the stimulus of trial 0, a zero
\* reward, no info, and done = (total_num_trials = 0); with one block or more
\* that done is false.
C11_FirstObservation ==
    JustReset =>
        /\ step_output.stimulus = stimuli[1]
        /\ step_output.reward = 0
        /\ step_output.info = NoneDict
        /\ step_output.done = (total_num_trials = 0)
        /\ num_blocks >= 1 => ~step_output.done

\* C11 witness: reset() has returned the first observation of an episode
\* whose first two stimuli differ
C11_Witness ==
    /\ JustReset
    /\ num_blocks >= 1
    /\ ~step_output.done
    /\ step_output.stimulus # stimuli[2]

\* C12: whatever the episode was when reset() was called (not started,
\* ready, under way or exhausted), after reset() the cursor is 0, rewards and
\* actions are all zero and model_hidden_states is empty; the arrays are new
\* objects, never the ones the caller kept from the episode before, so the
\* steps that follow write to arrays the kept references do not reach.
C12_ResetRecreatesState ==
    /\ JustReset =>
          /\ current_trial_idx = 0
          /\ rewards = [i \in 1..total_num_trials |-> 0]
          /\ actions = [i \in 1..total_num_trials |-> <<0, 0>>]
          /\ model_hidden_states = <<>>
          /\ reset_from \in {"not_started", "ready", "mid_episode", "exhausted"}
    /\ Started => (arrays_id # None /\ arrays_id # kept_id)

\* C12 witness: reset() was called on an exhausted episode whose arrays the
\* caller kept, and a step of the new episode has been recorded
C12_Witness ==
    /\ Started
    /\ reset_from = "exhausted"
    /\ kept_id # None
    /\ num_steps = 1
    /\ rewards[1] # 0

\* C13 as stated: the calls made on another instance leave the outcome of
\* this instance's calls as it would be without them; the block lengths its
\* reset() drew are the ones it would have drawn alone.
C13_InstancesIndependent ==
    Started =>
        /\ geometric_samples = samples_alone
        /\ num_trials_per_block = truncate_all(samples_alone)

\* a step() call on an instance that reset() has started
StepCall == Started /\ num_steps' = num_steps + 1

\* C14: step() on the last trial (cursor = total_num_trials - 1) returns no
\* observation: it raises IndexError after it has written the reward and the
\* action of the last trial, appended the hidden state and moved the cursor
\* to total_num_trials; the caller keeps the observation it had.
C14_LastTrialStep ==
    [][(StepCall /\ current_trial_idx = total_num_trials - 1) =>
          /\ raised' = "IndexError"
          /\ step_output' = step_output
          /\ current_trial_idx' = total_num_trials
          /\ rewards'[total_num_trials] = EarnedReward(total_num_trials - 1)
          /\ actions'[total_num_trials] = GivenAction(total_num_trials - 1)
          /\ model_hidden_states' = Append(model_hidden_states, model_hidden)
          /\ Len(model_hidden_states') = total_num_trials
          /\ UNCHANGED timeline]_vars

C14_Witness ==
    /\ Started
    /\ num_steps = total_num_trials
    /\ current_trial_idx = total_num_trials
    /\ raised = "IndexError"
    /\ Len(model_hidden_states) = total_num_trials
    /\ rewards[total_num_trials] # 0

\* the episode is exhausted
Exhausted == Started /\ current_trial_idx = total_num_trials

\* C15: on an exhausted episode every step() call raises IndexError and
\* leaves the cursor, rewards, actions and model_hidden_states (and the
\* timeline) as they were; the episode stays exhausted until a reset() that
\* returns, which starts the next episode at cursor 0.
C15_ExhaustedStep ==
    [][Exhausted =>
          /\ StepCall => (raised' = "IndexError" /\ UNCHANGED <<history, timeline>>)
          /\ ~Exhausted' => (current_trial_idx' = 0 /\ num_steps' = 0
                                 /\ raised' = "none")]_vars

C15_Witness ==
    /\ Exhausted
    /\ num_steps >= total_num_trials + 2
    /\ raised = "IndexError"
    /\ Len(model_hidden_states) = total_num_trials

\* C16: a step() call at cursor c on a started episode leaves the
\* configuration and the whole timeline as they were, changes no entry of
\* rewards or actions other than entry c, leaves the entries above c zero,
\* keeps the hidden states recorded so far and appends one, and moves the
\* cursor by one; at c = total_num_trials it changes none of them.
C16_StepFrame ==
    [][StepCall =>
          LET c == current_trial_idx
              wrote == IF c < total_num_trials THEN 1 ELSE 0
          IN  /\ UNCHANGED <<num_blocks, side_bias_probs, timeline>>
              /\ Len(rewards') = Len(rewards)
              /\ Len(actions') = Len(actions)
              /\ \A i \in 0..(total_num_trials - 1) :
                    i # c => /\ rewards'[i + 1] = rewards[i + 1]
                             /\ actions'[i + 1] = actions[i + 1]
              /\ \A i \in (c + 1)..(total_num_trials - 1) :
                    /\ rewards'[i + 1] = 0
                    /\ actions'[i + 1] = <<0, 0>>
              /\ Len(model_hidden_states') = Len(model_hidden_states) + wrote
              /\ SubSeq(model_hidden_states', 1, Len(model_hidden_states))
                     = model_hidden_states
              /\ current_trial_idx' = c + wrote]_vars

C16_Witness ==
    /\ Started
    /\ raised = "none"
    /\ num_steps >= 2
    /\ Len(model_hidden_states) = num_steps
    /\ rewards[num_steps - 1] # 0
    /\ rewards[num_steps] # 0
    /\ rewards[num_steps + 1] = 0
    /\ actions[num_steps + 1] = <<0, 0>>

\* the trial the last step() call answered, when that call wrote its record
AnsweredTrial == current_trial_idx - 1

\* C17: the reward of a step() call at cursor c is the entry of the action
\* distribution given to the call at index (stimuli_sides[c] + 1) / 2, entry
\* 0 for side -1 and entry 1 for side +1; it is what rewards[c] holds, and
\* what the call returns when it returns.
C17_RewardOfAnsweredTrial ==
    (Started /\ num_steps >= 1 /\ num_steps <= total_num_trials) =>
        LET c == AnsweredTrial
            given == GivenAction(c)
            side == stimuli_sides[c + 1]
        IN  /\ side \in {-1, 1}
            /\ rewards[c + 1] = given[((side + 1) \div 2) + 1]
            /\ side = -1 => rewards[c + 1] = given[1]
            /\ side = 1 => rewards[c + 1] = given[2]
            /\ raised = "none" => step_output.reward = rewards[c + 1]

C17_Witness ==
    /\ Started
    /\ num_steps >= 1
    /\ raised = "none"
    /\ stimuli_sides[AnsweredTrial + 1] = 1
    /\ GivenAction(AnsweredTrial) = <<-1, -3>>
    /\ step_output.reward = -3
    /\ rewards[AnsweredTrial + 1] = -3

\* C18: the observation a step() call returns describes the trial the cursor
\* is on after the call, trial c + 1 for a call made at cursor c: stimulus,
\* stimulus_side and stimulus_strength are read at that one index.
C18_NextObservation ==
    (Started /\ num_steps >= 1 /\ raised = "none") =>
        /\ current_trial_idx = num_steps
        /\ current_trial_idx < total_num_trials
        /\ step_output.stimulus = stimuli[current_trial_idx + 1]
        /\ step_output.info.stimulus_side = stimuli_sides[current_trial_idx + 1]
        /\ step_output.info.stimulus_strength = stimuli_strengths[current_trial_idx + 1]

C18_Witness ==
    /\ Started
    /\ num_steps >= 1
    /\ raised = "none"
    /\ stimuli[current_trial_idx + 1] # stimuli[current_trial_idx]
    /\ stimuli_sides[current_trial_idx + 1] # stimuli_sides[current_trial_idx]
    /\ stimuli_strengths[current_trial_idx + 1] # stimuli_strengths[current_trial_idx]
    /\ step_output.stimulus = stimuli[current_trial_idx + 1]

\* C19: after reset(), trial i (0-based) of block b = stimuli_block_number[i]
\* has number j = trial_num_within_block[i] with 1 <= j <= the length of
\* block b and i = (trials in blocks 1..b-1) + j - 1; the numbering is 1 on
\* the first trial of a block and grows by one up to the block's length.
C19_TrialNumbersFollowLayout ==
    Started =>
        /\ Len(trial_num_within_block) = total_num_trials
        /\ Len(stimuli_block_number) = total_num_trials
        /\ \A i \in 0..(total_num_trials - 1) :
              LET b == stimuli_block_number[i + 1]
                  j == trial_num_within_block[i + 1]
              IN  /\ b \in 1..num_blocks
                  /\ 1 <= j
                  /\ j <= num_trials_per_block[b]
                  /\ i = TrialsBefore(b) + j - 1
        /\ \A b \in 1..num_blocks :
              /\ trial_num_within_block[TrialsBefore(b) + 1] = 1
              /\ trial_num_within_block[TrialsBefore(b) + num_trials_per_block[b]]
                     = num_trials_per_block[b]
        /\ \A k \in 1..(total_num_trials - 1) :
              trial_num_within_block[k + 1] =
                  IF stimuli_block_number[k + 1] = stimuli_block_number[k]
                  THEN trial_num_within_block[k] + 1
                  ELSE 1

C19_Witness ==
    /\ Started
    /\ num_blocks >= 2
    /\ num_trials_per_block[1] # num_trials_per_block[2]
    /\ trial_num_within_block[num_trials_per_block[1]] = num_trials_per_block[1]
    /\ trial_num_within_block[num_trials_per_block[1] + 1] = 1
    /\ trial_num_within_block[total_num_trials] = num_trials_per_block[num_blocks]

\* reset() has never been called on the instance
NeverReset == num_trials_per_block = NoneArray

\* every field of the episode is as __init__ left it
EpisodeUnset ==
    /\ timeline = <<NoneArray, NoneArray, NoneArray, NoneArray, NoneArray,
                    NoneArray, NoneArray, None>>
    /\ history = <<NoneArray, NoneArray, NoneArray, None>>
    /\ step_output = NoneDict

\* C20: as long as reset() has not been called, a step() call raises
\* TypeError and every field of the episode stays unset; after such a failed
\* call reset() starts the episode as it starts it on a new instance (with no
\* block it raises as it does on a new instance).
C20_StepBeforeReset ==
    /\ [](NeverReset => (EpisodeUnset /\ raised \in {"none", "TypeError"}))
    /\ [][(NeverReset /\ raised = "TypeError" /\ ~NeverReset') =>
             IF num_blocks = 0 THEN raised' = "ValueError" /\ ~Started'
             ELSE /\ JustReset'
                  /\ current_trial_idx' = 0
                  /\ num_trials_per_block' =
                         truncate_all(draw_block_lengths(np_random, num_blocks))
                  /\ total_num_trials' = sum(num_trials_per_block')
                  /\ Len(stimuli') = total_num_trials'
                  /\ rewards' = [i \in 1..total_num_trials' |-> 0]
                  /\ actions' = [i \in 1..total_num_trials' |-> <<0, 0>>]
                  /\ model_hidden_states' = <<>>
                  /\ step_output'.stimulus = stimuli'[1]]_vars

C20_Witness ==
    /\ NeverReset
    /\ raised = "TypeError"
    /\ EpisodeUnset
    /\ num_blocks >= 1

====
